---- MODULE Spec2Model ----
(***************************************************************************)
(* Session lifecycle of the dictation script                               *)
(* (src/src/automation_scripts/dictation/dictate.py).                      *)
(*                                                                         *)
(* Every command invocation (--start, --stop, --toggle) is one OS process. *)
(* The processes share the lock file LOCK_FILE, the audio files under      *)
(* TEMP_DIR and the OS process table (liveness probes and signals).  Each  *)
(* access to one of these is one step of the model, so that the            *)
(* interleavings of concurrently running invocations are explored; the     *)
(* computation a process does between two such accesses belongs to the     *)
(* step that follows it.                                                   *)
(***************************************************************************)
EXTENDS Integers, Sequences, FiniteSets, TLC

\* ------------------------------------------------------------------ bounds
NumProcs == 3          \* command invocations (pids 1..NumProcs)
MaxActive == 2         \* commands in their coordination phase when one is invoked
MaxChunks == 2         \* frame chunks the audio backend delivers per session

\* ------------------------------------------------------- program constants
StopPolls == 50        \* for i in range(50): liveness polls of stop_recording
StalePid == 99999      \* pid of a recorder that crashed before the run begins
NoPid == 0             \* lock_data.get('pid') is None

Procs == 1..NumProcs
Paths == Procs \cup {StalePid}     \* recording-<pid>-<timestamp>.wav, one per pid

VARIABLES
    lock,        \* LOCK_FILE: [kind, pid, audio]
    files,       \* files[path]: the audio file at that path: [state, data]
    cmd,         \* cmd[p]: the mode the process was invoked with
    pc,          \* pc[p]: position of the main thread of process p
    rc,          \* rc[p]: exit status of p (-1 while it has none)
    lk,          \* lk[p]: lock_data as read by p
    polls,       \* polls[p]: loop variable i of stop_recording's wait loop
    audio_data,  \* audio_data[p]: DictationRecorder.audio_data
    stream,      \* stream[p]: "none" | "active" | "stopped"
    handlers,    \* handlers[p]: SIGTERM/SIGINT handlers registered
    pending,     \* pending[p]: a termination signal is pending for p
    hstack,      \* hstack[p]: frames of _signal_handler running on the main thread
    delivered,   \* delivered[p]: every chunk the backend handed to the callback
    log,         \* log[p]: what p did, in order (notifications, signals, file ops)
    prev,        \* the mode of the most recent invocation
    succ         \* succ[p]: p was invoked right after a --stop had ended, with
                 \* no other command running, and none was invoked since

fsv   == <<lock, files>>
locv  == <<lk, polls>>
recv  == <<audio_data, stream, handlers, pending, hstack, delivered>>
histv == <<prev, succ>>
vars  == <<lock, files, cmd, pc, rc, lk, polls, audio_data, stream, handlers,
           pending, hstack, delivered, log, prev, succ>>

\* ------------------------------------------------------------ lock file
Absent  == [kind |-> "absent",  pid |-> NoPid, audio |-> NoPid]
Corrupt == [kind |-> "corrupt", pid |-> NoPid, audio |-> NoPid]
\* valid JSON that is no object (a list, a string, a number)
NotRecord == [kind |-> "nonrecord", pid |-> NoPid, audio |-> NoPid]
Marker(pid, audio) == [kind |-> "rec", pid |-> pid, audio |-> audio]
\* what open(LOCK_FILE, 'w') leaves when json.dump or the closing flush fails:
\* an empty or cut-off file, unparseable (pid: the process that wrote it)
Truncated(pid) == [kind |-> "corrupt", pid |-> pid, audio |-> NoPid]

NoFile == [state |-> "absent", data |-> <<>>]

\* ------------------------------------------------------------ processes
\* A process that has ended stays visible for one state ("done": it returned
\* or exited with a status, "crashed": uncaught exception, "killed": ended by
\* a signal); then the OS reaps it and nothing of its memory is left.
Ended == {"done", "crashed", "killed"}
Running(p) == pc[p] \notin (Ended \cup {"idle", "gone"})
Quiet == \A q \in Procs : pc[q] \notin Ended
At(p, l) == Quiet /\ pc[p] = l

\* a Recorder idling in `while self.recording: time.sleep(0.1)`
Parked(p) == pc[p] = "s_loop" /\ hstack[p] = <<>> /\ ~pending[p]
Active == {q \in Procs : Running(q) /\ ~Parked(q)}

\* os.kill(pid, 0): the pid denotes a process that exists
is_process_running(pid) == pid \in Procs /\ Running(pid)

\* ------------------------------------------------------------ audio data
\* the k-th chunk the backend delivers: k samples of value k
Chunk(k) == [i \in 1..k |-> k]

RECURSIVE concatenate(_)
\* np.concatenate(self.audio_data, axis=0)
concatenate(chunks) ==
    IF chunks = <<>> THEN <<>> ELSE Head(chunks) \o concatenate(Tail(chunks))

RECURSIVE SampleCount(_)
SampleCount(chunks) ==
    IF chunks = <<>> THEN 0 ELSE Len(Head(chunks)) + SampleCount(Tail(chunks))

\* ------------------------------------------------------------ step helpers
Goto(p, l)  == pc' = [pc EXCEPT ![p] = l]
Step(p, l)  == Goto(p, l) /\ UNCHANGED rc
Logged(p, es) == log' = [log EXCEPT ![p] = @ \o es]

\* the process ends with exit status r
Return(p, r) ==
    /\ Goto(p, "done")
    /\ rc' = [rc EXCEPT ![p] = r]

\* an uncaught exception ends the process (traceback, no returned status)
Crash(p) ==
    /\ Goto(p, "crashed")
    /\ UNCHANGED rc

HasIn(l, e) == \E i \in 1..Len(l) : l[i] = e
Has(p, e) == HasIn(log[p], e)
Count(p, e) == Cardinality({i \in 1..Len(log[p]) : log[p][i] = e})
Before(p, a, b) ==
    \A j \in 1..Len(log[p]) : log[p][j] = b =>
        \E i \in 1..(j - 1) : log[p][i] = a

Init ==
    /\ lock \in {Absent, Corrupt, NotRecord, Marker(StalePid, StalePid),
                 Marker(NoPid, StalePid)}
    /\ files = [f \in Paths |-> NoFile]
    /\ cmd = [p \in Procs |-> "none"]
    /\ pc = [p \in Procs |-> "idle"]
    /\ rc = [p \in Procs |-> -1]
    /\ lk = [p \in Procs |-> Absent]
    /\ polls = [p \in Procs |-> 0]
    /\ audio_data = [p \in Procs |-> <<>>]
    /\ stream = [p \in Procs |-> "none"]
    /\ handlers = [p \in Procs |-> FALSE]
    /\ pending = [p \in Procs |-> FALSE]
    /\ hstack = [p \in Procs |-> <<>>]
    /\ delivered = [p \in Procs |-> <<>>]
    /\ log = [p \in Procs |-> <<>>]
    /\ prev = "none"
    /\ succ = [p \in Procs |-> FALSE]

\* the mode options of the command line
Modes == {"start", "stop", "toggle", "transcribe"}
\* how many mode options the command line had, for the log
given(args) ==
    CASE Cardinality(args) = 0 -> "no_mode"
      [] Cardinality(args) = 1 -> "one_mode"
      [] Cardinality(args) > 1 -> "several_modes"

\* variant: with several mode options the first of start, stop, toggle wins
mode_first(args) ==
    CASE args = {} -> "invalid"
      [] "start" \in args -> "start"
      [] "stop" \in args -> "stop"
      [] "toggle" \in args -> "toggle"
      [] OTHER -> "transcribe"

\* the mode main runs for the options given: exactly one, or none
mode(args) == IF Cardinality(args) = 1 THEN CHOOSE m \in args : TRUE ELSE "invalid"

\* main(): dispatch on the mode given on the command line.  Pids are handed
\* out in invocation order; at most MaxActive commands are in their
\* coordination phase when a further one is invoked.
\* if sum([args.start, args.stop, args.toggle, bool(args.transcribe)]) > 1:
\*     return 1
\* if not args.start and not args.stop and not args.toggle and not
\*     args.transcribe: return 1
\* --transcribe FILE runs transcribe_audio and returns 0, or 1 if it raised.
main(p, args) ==
    /\ At(p, "idle")
    /\ \A q \in Procs : q < p => pc[q] # "idle"
    /\ Cardinality(Active) < MaxActive
    /\ LET c == mode(args) IN
         /\ cmd' = [cmd EXCEPT ![p] = c]
         /\ CASE c = "invalid" ->
                   /\ Return(p, 1)
                   /\ Logged(p, <<given(args), "usage_error">>)
              [] c = "transcribe" ->
                   /\ \E r \in {0, 1} : Return(p, r)
                   /\ Logged(p, <<given(args), "transcribe_file">>)
              [] c = "start"  -> Step(p, "s_exists") /\ Logged(p, <<given(args)>>)
              [] c = "stop"   -> Step(p, "p_exists") /\ Logged(p, <<given(args)>>)
              [] c = "toggle" -> Step(p, "t_exists") /\ Logged(p, <<given(args)>>)
         /\ prev' = c
    /\ succ' = [q \in Procs |->
                   q = p /\ prev = "stop" /\ \A r \in Procs \ {p} : ~Running(r)]
    /\ UNCHANGED <<fsv, locv, recv>>

\* the OS removes a process that has ended
reap(p) ==
    /\ pc[p] \in Ended
    /\ pc' = [pc EXCEPT ![p] = "gone"]
    /\ cmd' = [cmd EXCEPT ![p] = "none"]
    /\ rc' = [rc EXCEPT ![p] = -1]
    /\ lk' = [lk EXCEPT ![p] = Absent]
    /\ polls' = [polls EXCEPT ![p] = 0]
    /\ audio_data' = [audio_data EXCEPT ![p] = <<>>]
    /\ stream' = [stream EXCEPT ![p] = "none"]
    /\ handlers' = [handlers EXCEPT ![p] = FALSE]
    /\ pending' = [pending EXCEPT ![p] = FALSE]
    /\ hstack' = [hstack EXCEPT ![p] = <<>>]
    /\ delivered' = [delivered EXCEPT ![p] = <<>>]
    /\ log' = [log EXCEPT ![p] = <<>>]
    /\ succ' = [succ EXCEPT ![p] = FALSE]
    /\ UNCHANGED <<fsv, prev>>

\* ------------------------------------------------------------------------
\* DictationRecorder.start_recording (also the idle branch of handle_toggle)
\* ------------------------------------------------------------------------

\* if LOCK_FILE.exists():
start_recording_exists(p) ==
    /\ At(p, "s_exists")
    /\ Step(p, IF lock.kind = "absent" THEN "s_preflight" ELSE "s_read")
    /\ UNCHANGED <<fsv, cmd, locv, recv, log, histv>>

\* with open(LOCK_FILE) as f: lock_data = json.load(f); pid = lock_data.get('pid')
\* A file that vanished since the existence check raises IOError, an
\* unparseable one JSONDecodeError: both reach the except clause.  A JSON
\* value without .get raises AttributeError, which the clause does not name.
start_recording_read(p) ==
    /\ At(p, "s_read")
    /\ CASE lock.kind = "rec" ->
              /\ lk' = [lk EXCEPT ![p] = lock]
              /\ Step(p, IF lock.pid = NoPid THEN "s_unlink_stale" ELSE "s_alive")
         [] lock.kind = "nonrecord" ->
              /\ Crash(p)
              /\ UNCHANGED lk
         [] lock.kind \in {"absent", "corrupt"} ->
              /\ Step(p, "s_unlink_invalid")
              /\ UNCHANGED lk
    /\ UNCHANGED <<fsv, cmd, polls, recv, log, histv>>

\* variant: the liveness of the recorded pid is not checked
start_recording_alive_unchecked(p) ==
    /\ At(p, "s_alive")
    /\ Step(p, "s_unlink_stale")
    /\ UNCHANGED <<fsv, cmd, locv, recv, log, histv>>

\* if pid and self._is_process_running(pid): notification; return 1
start_recording_alive(p) ==
    /\ At(p, "s_alive")
    /\ IF is_process_running(lk[p].pid)
       THEN /\ Return(p, 1)
            /\ Logged(p, <<"saw_live", "notify_already_recording">>)
       ELSE /\ Step(p, "s_unlink_stale")
            /\ UNCHANGED log
    /\ UNCHANGED <<fsv, cmd, locv, recv, histv>>

\* else: LOCK_FILE.unlink()   (stale lock; a missing file raises
\* FileNotFoundError, an IOError, caught by the except clause below it)
start_recording_unlink_stale(p) ==
    /\ At(p, "s_unlink_stale")
    /\ IF lock.kind = "absent"
       THEN /\ Step(p, "s_unlink_invalid")
            /\ UNCHANGED <<lock, log>>
       ELSE /\ lock' = Absent
            /\ Logged(p, <<"unlink">>)
            /\ Step(p, "s_preflight")
    /\ UNCHANGED <<files, cmd, locv, recv, histv>>

\* except (json.JSONDecodeError, KeyError, IOError): LOCK_FILE.unlink()
\* (nothing catches a FileNotFoundError raised inside the except clause)
start_recording_unlink_invalid(p) ==
    /\ At(p, "s_unlink_invalid")
    /\ IF lock.kind = "absent"
       THEN /\ Crash(p)
            /\ UNCHANGED <<lock, log>>
       ELSE /\ lock' = Absent
            /\ Logged(p, <<"unlink">>)
            /\ Step(p, "s_preflight")
    /\ UNCHANGED <<files, cmd, locv, recv, histv>>

\* variant: a directory that cannot be created is reported, and the run
\* goes on
start_recording_preflight_lenient(p) ==
    /\ At(p, "s_preflight")
    /\ \E device_available \in BOOLEAN, dir_ok \in BOOLEAN :
         CASE ~device_available ->
                  Return(p, 1) /\ Logged(p, <<"notify_device_error">>)
           [] device_available /\ ~dir_ok ->
                  Step(p, "s_write") /\ Logged(p, <<"device_ok", "notify_dir_error">>)
           [] device_available /\ dir_ok ->
                  Step(p, "s_write") /\ Logged(p, <<"device_ok", "dir_ok">>)
    /\ UNCHANGED <<fsv, cmd, locv, recv, histv>>

\* device_available, device_info = self._check_audio_device()
\* TEMP_DIR.mkdir(parents=True, exist_ok=True)
start_recording_preflight(p) ==
    /\ At(p, "s_preflight")
    /\ \E device_available \in BOOLEAN, dir_ok \in BOOLEAN :
         CASE ~device_available ->
                  Return(p, 1) /\ Logged(p, <<"notify_device_error">>)
           [] device_available /\ ~dir_ok ->
                  Return(p, 1) /\ Logged(p, <<"device_ok", "notify_dir_error">>)
           [] device_available /\ dir_ok ->
                  Step(p, "s_write") /\ Logged(p, <<"device_ok", "dir_ok">>)
    /\ UNCHANGED <<fsv, cmd, locv, recv, histv>>

\* pid = os.getpid(); audio_file = TEMP_DIR / recording-<pid>-<timestamp>.wav
\* with open(LOCK_FILE, 'w') as f: json.dump(lock_data, f)
\* variant: the recording goes on without a lock file being written
start_recording_write_skipped(p) ==
    /\ At(p, "s_write")
    /\ \E outcome \in {"ok", "open_failed", "dump_failed"} :
         CASE outcome = "ok" ->
                /\ lock' = lock
                /\ Logged(p, <<"write">>)
                /\ Step(p, "s_signal")
           [] outcome = "open_failed" ->
                /\ Return(p, 1)
                /\ Logged(p, <<"write_failed">>)
                /\ UNCHANGED lock
           [] outcome = "dump_failed" ->
                /\ Return(p, 1)
                /\ Logged(p, <<"write_failed">>)
                /\ lock' = Truncated(p)
    /\ UNCHANGED <<files, cmd, locv, recv, histv>>

\* variant: the record that is written has no pid
start_recording_write_anonymous(p) ==
    /\ At(p, "s_write")
    /\ \E outcome \in {"ok", "open_failed", "dump_failed"} :
         CASE outcome = "ok" ->
                /\ lock' = Marker(NoPid, p)
                /\ Logged(p, <<"write">>)
                /\ Step(p, "s_signal")
           [] outcome = "open_failed" ->
                /\ Return(p, 1)
                /\ Logged(p, <<"write_failed">>)
                /\ UNCHANGED lock
           [] outcome = "dump_failed" ->
                /\ Return(p, 1)
                /\ Logged(p, <<"write_failed">>)
                /\ lock' = Truncated(p)
    /\ UNCHANGED <<files, cmd, locv, recv, histv>>

\* except IOError: return 1   (open failed: no file was created or changed;
\* the write failed: the file that open created or emptied stays)
start_recording_write(p) ==
    /\ At(p, "s_write")
    /\ \E outcome \in {"ok", "open_failed", "dump_failed"} :
         CASE outcome = "ok" ->
                /\ lock' = Marker(p, p)
                /\ Logged(p, <<"write">>)
                /\ Step(p, "s_signal")
           [] outcome = "open_failed" ->
                /\ Return(p, 1)
                /\ Logged(p, <<"write_failed">>)
                /\ UNCHANGED lock
           [] outcome = "dump_failed" ->
                /\ Return(p, 1)
                /\ Logged(p, <<"write_failed">>)
                /\ lock' = Truncated(p)
    /\ UNCHANGED <<files, cmd, locv, recv, histv>>

\* signal.signal(SIGTERM, self._signal_handler); signal.signal(SIGINT, ...)
start_recording_signal(p) ==
    /\ At(p, "s_signal")
    /\ handlers' = [handlers EXCEPT ![p] = TRUE]
    /\ Step(p, "s_open")
    /\ UNCHANGED <<fsv, cmd, locv, audio_data, stream, pending, hstack, delivered,
                   log, histv>>

\* self.audio_data = []; self.stream = sd.InputStream(...); self.stream.start()
\* then: while self.recording: time.sleep(0.1)
\* sd.PortAudioError is caught: notification, lock cleanup, return 1
start_recording_open(p) ==
    /\ At(p, "s_open")
    /\ hstack[p] = <<>>
    /\ ~pending[p]
    /\ audio_data' = [audio_data EXCEPT ![p] = <<>>]
    /\ \E ok \in BOOLEAN :
         IF ok
         THEN /\ stream' = [stream EXCEPT ![p] = "active"]
              /\ Logged(p, <<"open", "notify_started">>)
              /\ Step(p, "s_loop")
         ELSE /\ Logged(p, <<"notify_audio_error">>)
              /\ Step(p, "s_fail_exists")
              /\ UNCHANGED stream
    /\ UNCHANGED <<fsv, cmd, locv, handlers, pending, hstack, delivered, histv>>

\* except ...: if LOCK_FILE.exists():
start_recording_fail_exists(p) ==
    /\ At(p, "s_fail_exists")
    /\ hstack[p] = <<>>
    /\ ~pending[p]
    /\ IF lock.kind = "absent" THEN Return(p, 1) ELSE Step(p, "s_fail_unlink")
    /\ UNCHANGED <<fsv, cmd, locv, recv, log, histv>>

\* except ...: LOCK_FILE.unlink(); return 1
start_recording_fail_unlink(p) ==
    /\ At(p, "s_fail_unlink")
    /\ hstack[p] = <<>>
    /\ ~pending[p]
    /\ IF lock.kind = "absent"
       THEN /\ Crash(p)
            /\ UNCHANGED <<lock, log>>
       ELSE /\ lock' = Absent
            /\ Logged(p, <<"unlink">>)
            /\ Return(p, 1)
    /\ UNCHANGED <<files, cmd, locv, recv, histv>>

\* variant: the callback keeps only the latest chunk
audio_callback_latest(p) ==
    /\ Quiet
    /\ Running(p)
    /\ stream[p] = "active"
    /\ Len(delivered[p]) < MaxChunks
    /\ LET chunk == Chunk(Len(delivered[p]) + 1) IN
         /\ audio_data' = [audio_data EXCEPT ![p] = <<chunk>>]
         /\ delivered' = [delivered EXCEPT ![p] = Append(@, chunk)]
    /\ UNCHANGED <<fsv, cmd, pc, rc, locv, stream, handlers, pending, hstack,
                   log, histv>>

\* variant: a chunk that comes with a backend status makes the Recorder
\* write out what it has
audio_callback_flushing(p) ==
    /\ Quiet
    /\ Running(p)
    /\ stream[p] = "active"
    /\ Len(delivered[p]) < MaxChunks
    /\ \E status \in BOOLEAN :
         LET chunk == Chunk(Len(delivered[p]) + 1) IN
           /\ audio_data' = [audio_data EXCEPT ![p] = Append(@, chunk)]
           /\ delivered' = [delivered EXCEPT ![p] = Append(@, chunk)]
           /\ files' = IF status
                       THEN [files EXCEPT ![p] =
                               [state |-> "complete",
                                data |-> concatenate(Append(audio_data[p], chunk))]]
                       ELSE files
    /\ UNCHANGED <<lock, cmd, pc, rc, locv, stream, handlers, pending, hstack,
                   log, histv>>

\* DictationRecorder._audio_callback, on the backend's thread:
\* if status: print(status)     (an overflow or underflow report: no effect)
\* self.audio_data.append(indata.copy())
audio_callback(p) ==
    /\ Quiet
    /\ Running(p)
    /\ stream[p] = "active"
    /\ Len(delivered[p]) < MaxChunks
    /\ \E status \in BOOLEAN :
         LET chunk == Chunk(Len(delivered[p]) + 1) IN
           /\ audio_data' = [audio_data EXCEPT ![p] = Append(@, chunk)]
           /\ delivered' = [delivered EXCEPT ![p] = Append(@, chunk)]
    /\ UNCHANGED <<fsv, cmd, pc, rc, locv, stream, handlers, pending, hstack,
                   log, histv>>

\* ------------------------------------------------------------------------
\* DictationRecorder._signal_handler and _save_audio_data.  Python runs a
\* signal handler on the main thread between two bytecodes; a signal that
\* arrives while a handler runs starts a nested handler on top of it.
\* ------------------------------------------------------------------------
Frame(l, saved) == [pc |-> l, saved |-> saved]
Top(p) == Head(hstack[p])
InHandler(p, l) ==
    /\ Quiet
    /\ Running(p)
    /\ ~pending[p]
    /\ hstack[p] # <<>>
    /\ Top(p).pc = l
SetTop(p, f) == hstack' = [hstack EXCEPT ![p] = <<f>> \o Tail(@)]

\* sys.exit(status): SystemExit passes every `except Exception` on its way
Exit(p, status) ==
    /\ Return(p, status)
    /\ UNCHANGED hstack

\* the frame is inside the try block of _save_audio_data
InTry(p, f) == f.pc = "h_write" \/ (f.pc = "h_save" /\ audio_data[p] # <<>>)

RECURSIVE Unwind(_, _)
\* the handler frames an exception leaves behind: those up to the innermost
\* one that catches it
Unwind(p, frames) ==
    IF frames = <<>> \/ InTry(p, Head(frames)) THEN frames
    ELSE Unwind(p, Tail(frames))

\* variant: the handler goes on to the flush with the stream still running
signal_handler_begin_streaming(p) ==
    /\ Quiet
    /\ Running(p)
    /\ pending[p]
    /\ handlers[p]
    /\ pending' = [pending EXCEPT ![p] = FALSE]
    /\ stream' = stream
    /\ hstack' = [hstack EXCEPT ![p] = <<Frame("h_save", FALSE)>> \o @]
    /\ Logged(p, <<"signal">>)
    /\ UNCHANGED <<fsv, cmd, pc, rc, locv, audio_data, handlers, delivered, histv>>

\* self.recording = False
\* if self.stream and self.stream.active: self.stream.stop(); self.stream.close()
signal_handler_begin(p) ==
    /\ Quiet
    /\ Running(p)
    /\ pending[p]
    /\ handlers[p]
    /\ pending' = [pending EXCEPT ![p] = FALSE]
    /\ stream' = [stream EXCEPT ![p] = IF @ = "active" THEN "stopped" ELSE @]
    /\ hstack' = [hstack EXCEPT ![p] = <<Frame("h_save", FALSE)>> \o @]
    /\ Logged(p, <<"signal">>)
    /\ UNCHANGED <<fsv, cmd, pc, rc, locv, audio_data, handlers, delivered, histv>>

\* if not self.audio_data: return False
\* audio_array = np.concatenate(self.audio_data, axis=0)
\* with wave.open(str(self.audio_file), 'wb') as wf:   (creates the file)
\* except Exception: notification "Failed to save audio"; return False
save_audio_data_open(p) ==
    /\ InHandler(p, "h_save")
    /\ IF audio_data[p] = <<>>
       THEN /\ SetTop(p, Frame("h_exists", FALSE))
            /\ Logged(p, <<"warn_no_audio">>)
            /\ UNCHANGED files
       ELSE \E ok \in BOOLEAN :
              IF ok
              THEN /\ files' = [files EXCEPT ![p] = [state |-> "partial", data |-> <<>>]]
                   /\ SetTop(p, Frame("h_write", FALSE))
                   /\ UNCHANGED log
              ELSE /\ SetTop(p, Frame("h_exists", FALSE))
                   /\ Logged(p, <<"notify_save_failed">>)
                   /\ UNCHANGED files
    /\ UNCHANGED <<lock, cmd, pc, rc, locv, audio_data, stream, handlers, pending,
                   delivered, histv>>

\* wf.writeframes(audio_array.tobytes()); notification "Recording saved"; return True
\* except Exception: notification "Failed to save audio"; return False
save_audio_data_write(p) ==
    /\ InHandler(p, "h_write")
    /\ \E ok \in BOOLEAN :
         IF ok
         THEN /\ files' = [files EXCEPT ![p] =
                              [state |-> "complete", data |-> concatenate(audio_data[p])]]
              /\ SetTop(p, Frame("h_exists", TRUE))
              /\ Logged(p, <<"notify_saved">>)
         ELSE /\ SetTop(p, Frame("h_exists", FALSE))
              /\ Logged(p, <<"notify_save_failed">>)
              /\ UNCHANGED files
    /\ UNCHANGED <<lock, cmd, pc, rc, locv, audio_data, stream, handlers, pending,
                   delivered, histv>>

\* if LOCK_FILE.exists(): ... else: sys.exit(0) / sys.exit(1)
signal_handler_exists(p) ==
    /\ InHandler(p, "h_exists")
    /\ IF lock.kind = "absent"
       THEN /\ Exit(p, IF Top(p).saved THEN 0 ELSE 1)
            /\ Logged(p, <<"exit">>)
       ELSE /\ SetTop(p, Frame("h_unlink", Top(p).saved))
            /\ UNCHANGED <<pc, rc, log>>
    /\ UNCHANGED <<fsv, cmd, locv, audio_data, stream, handlers, pending,
                   delivered, histv>>

\* LOCK_FILE.unlink(); sys.exit(0) / sys.exit(1)
\* A FileNotFoundError leaves the handler: an interrupted _save_audio_data
\* catches it (return False), otherwise it reaches the code the signal
\* interrupted: `except Exception` of start_recording when that is the try
\* block (notification, lock cleanup, return 1), else nothing catches it.
signal_handler_unlink(p) ==
    /\ InHandler(p, "h_unlink")
    /\ IF lock.kind # "absent"
       THEN /\ lock' = Absent
            /\ Logged(p, <<"unlink", "exit">>)
            /\ Exit(p, IF Top(p).saved THEN 0 ELSE 1)
       ELSE /\ UNCHANGED lock
            /\ LET rest == Unwind(p, Tail(hstack[p])) IN
                 /\ hstack' = [hstack EXCEPT ![p] =
                                  IF rest = <<>> THEN <<>>
                                  ELSE <<Frame("h_exists", FALSE)>> \o Tail(rest)]
                 /\ IF rest # <<>>
                    THEN /\ Logged(p, <<"notify_save_failed">>)
                         /\ UNCHANGED <<pc, rc>>
                    ELSE IF pc[p] \in {"s_open", "s_loop"}
                         THEN /\ Step(p, "s_fail_exists")
                              /\ Logged(p, <<"notify_recording_error">>)
                         ELSE /\ Crash(p)
                              /\ UNCHANGED log
    /\ UNCHANGED <<files, cmd, locv, audio_data, stream, handlers, pending,
                   delivered, histv>>

\* ------------------------------------------------------------------------
\* DictationRecorder.stop_recording (called by --stop and by handle_toggle)
\* ------------------------------------------------------------------------

\* stop_recording returns r.  Under --stop that is the exit status; in
\* handle_toggle: if stop_result != 0: notification "Failed to stop
\* recording"; return stop_result -- otherwise the transcription follows.
StopReturn(p, r, es) ==
    IF cmd[p] # "toggle"
    THEN Return(p, r) /\ Logged(p, es)
    ELSE IF r # 0
         THEN Return(p, r) /\ Logged(p, es \o <<"stop_failed", "notify_stop_failed">>)
         ELSE Step(p, "t_audio") /\ Logged(p, es \o <<"stop_ok">>)

\* variant: a missing lock file is reported as success
stop_recording_exists_lenient(p) ==
    /\ At(p, "p_exists")
    /\ IF lock.kind = "absent"
       THEN StopReturn(p, 0, <<"no_lock", "notify_not_recording">>)
       ELSE Step(p, "p_read") /\ UNCHANGED log
    /\ UNCHANGED <<fsv, cmd, locv, recv, histv>>

\* if not LOCK_FILE.exists(): notification "Not currently recording"; return 1
stop_recording_exists(p) ==
    /\ At(p, "p_exists")
    /\ IF lock.kind = "absent"
       THEN StopReturn(p, 1, <<"no_lock", "notify_not_recording">>)
       ELSE Step(p, "p_read") /\ UNCHANGED log
    /\ UNCHANGED <<fsv, cmd, locv, recv, histv>>

\* with open(LOCK_FILE) as f: lock_data = json.load(f)
\* except (json.JSONDecodeError, IOError): ...
\* recording_pid = lock_data.get('pid')   (AttributeError on a JSON value
\* that is no object: it is raised outside the try block)
stop_recording_read(p) ==
    /\ At(p, "p_read")
    /\ CASE lock.kind = "rec" ->
              /\ lk' = [lk EXCEPT ![p] = lock]
              /\ Step(p, IF lock.pid = NoPid THEN "p_nopid_unlink" ELSE "p_alive")
         [] lock.kind = "nonrecord" ->
              /\ Crash(p)
              /\ UNCHANGED lk
         [] lock.kind \in {"absent", "corrupt"} ->
              /\ Step(p, "p_invalid_exists")
              /\ UNCHANGED lk
    /\ UNCHANGED <<fsv, cmd, polls, recv, log, histv>>

\* (invalid lock file) if LOCK_FILE.exists():
stop_recording_invalid_exists(p) ==
    /\ At(p, "p_invalid_exists")
    /\ IF lock.kind = "absent"
       THEN StopReturn(p, 1, <<"invalid_lock">>)
       ELSE Step(p, "p_invalid_unlink") /\ UNCHANGED log
    /\ UNCHANGED <<fsv, cmd, locv, recv, histv>>

\* (invalid lock file) LOCK_FILE.unlink(); return 1
stop_recording_invalid_unlink(p) ==
    /\ At(p, "p_invalid_unlink")
    /\ IF lock.kind = "absent"
       THEN /\ Crash(p)
            /\ UNCHANGED <<lock, log>>
       ELSE /\ lock' = Absent
            /\ StopReturn(p, 1, <<"invalid_lock", "unlink">>)
    /\ UNCHANGED <<files, cmd, locv, recv, histv>>

\* if not recording_pid: LOCK_FILE.unlink(); return 1
stop_recording_nopid_unlink(p) ==
    /\ At(p, "p_nopid_unlink")
    /\ IF lock.kind = "absent"
       THEN /\ Crash(p)
            /\ UNCHANGED <<lock, log>>
       ELSE /\ lock' = Absent
            /\ StopReturn(p, 1, <<"no_pid", "unlink">>)
    /\ UNCHANGED <<files, cmd, locv, recv, histv>>

\* if not self._is_process_running(recording_pid):
stop_recording_alive(p) ==
    /\ At(p, "p_alive")
    /\ IF is_process_running(lk[p].pid)
       THEN Step(p, "p_term") /\ Logged(p, <<"saw_live">>)
       ELSE Step(p, "p_stale_unlink") /\ Logged(p, <<"saw_stale">>)
    /\ UNCHANGED <<fsv, cmd, locv, recv, histv>>

\* variant: a stale lock is cleaned up and reported as success
stop_recording_stale_unlink_lenient(p) ==
    /\ At(p, "p_stale_unlink")
    /\ IF lock.kind = "absent"
       THEN /\ Crash(p)
            /\ UNCHANGED <<lock, log>>
       ELSE /\ lock' = Absent
            /\ StopReturn(p, 0, <<"unlink">>)
    /\ UNCHANGED <<files, cmd, locv, recv, histv>>

\* (process not running) LOCK_FILE.unlink(); return 1
stop_recording_stale_unlink(p) ==
    /\ At(p, "p_stale_unlink")
    /\ IF lock.kind = "absent"
       THEN /\ Crash(p)
            /\ UNCHANGED <<lock, log>>
       ELSE /\ lock' = Absent
            /\ StopReturn(p, 1, <<"unlink">>)
    /\ UNCHANGED <<files, cmd, locv, recv, histv>>

\* os.kill(recording_pid, signal.SIGTERM)
\* A process without the handlers registered dies of the signal's default
\* action; a process that is gone raises ProcessLookupError.
stop_recording_term(p) ==
    /\ At(p, "p_term")
    /\ LET q == lk[p].pid IN
         IF ~is_process_running(q)
         THEN /\ Step(p, "p_lookup_exists")
              /\ UNCHANGED <<pending, log>>
         ELSE /\ Logged(p, <<"sigterm">>)
              /\ UNCHANGED rc
              /\ IF handlers[q]
                 THEN /\ pending' = [pending EXCEPT ![q] = TRUE]
                      /\ Goto(p, "p_poll")
                 ELSE /\ pc' = [pc EXCEPT ![p] = "p_poll", ![q] = "killed"]
                      /\ UNCHANGED pending
    /\ polls' = [polls EXCEPT ![p] = 0]
    /\ UNCHANGED <<fsv, cmd, lk, audio_data, stream, handlers, hstack, delivered, histv>>

\* variant: the wait loop gives up after its first iteration
stop_recording_poll_impatient(p) ==
    /\ At(p, "p_poll")
    /\ IF ~is_process_running(lk[p].pid)
       THEN /\ StopReturn(p, 0, <<"poll_dead">>)
            /\ UNCHANGED polls
       ELSE /\ polls' = [polls EXCEPT ![p] = 1]
            /\ Step(p, "p_kill")
            /\ UNCHANGED log
    /\ UNCHANGED <<fsv, cmd, lk, recv, histv>>

\* for i in range(50):
\*     if not self._is_process_running(recording_pid): return 0
\*     time.sleep(0.1)
\* if self._is_process_running(recording_pid): ...   (else: return 0)
\* An iteration that finds the owner running changes nothing but i, so the
\* loop and the check after it are one step: it ends with 0 if the owner is
\* gone, and with all StopPolls polls done if the owner is still running.
\* An owner that ends while the loop waits has ended before this step.
stop_recording_poll(p) ==
    /\ At(p, "p_poll")
    /\ IF ~is_process_running(lk[p].pid)
       THEN /\ StopReturn(p, 0, <<"poll_dead">>)
            /\ UNCHANGED polls
       ELSE /\ polls' = [polls EXCEPT ![p] = StopPolls]
            /\ Step(p, "p_kill")
            /\ UNCHANGED log
    /\ UNCHANGED <<fsv, cmd, lk, recv, histv>>

\* os.kill(recording_pid, signal.SIGKILL); time.sleep(0.5)
stop_recording_kill(p) ==
    /\ At(p, "p_kill")
    /\ LET q == lk[p].pid IN
         IF ~is_process_running(q)
         THEN /\ Step(p, "p_lookup_exists")
              /\ UNCHANGED log
         ELSE /\ Logged(p, <<"sigkill">>)
              /\ pc' = [pc EXCEPT ![p] = "p_kill_exists", ![q] = "killed"]
              /\ UNCHANGED rc
    /\ UNCHANGED <<fsv, cmd, locv, recv, histv>>

\* (after SIGKILL) if LOCK_FILE.exists():
stop_recording_kill_exists(p) ==
    /\ At(p, "p_kill_exists")
    /\ IF lock.kind = "absent"
       THEN StopReturn(p, 1, <<>>)
       ELSE Step(p, "p_kill_unlink") /\ UNCHANGED log
    /\ UNCHANGED <<fsv, cmd, locv, recv, histv>>

\* (after SIGKILL) LOCK_FILE.unlink(); return 1
\* (a FileNotFoundError here is caught by `except Exception`: return 1)
stop_recording_kill_unlink(p) ==
    /\ At(p, "p_kill_unlink")
    /\ IF lock.kind = "absent"
       THEN UNCHANGED lock /\ StopReturn(p, 1, <<>>)
       ELSE lock' = Absent /\ StopReturn(p, 1, <<"unlink">>)
    /\ UNCHANGED <<files, cmd, locv, recv, histv>>

\* except ProcessLookupError: if LOCK_FILE.exists():
stop_recording_lookup_exists(p) ==
    /\ At(p, "p_lookup_exists")
    /\ IF lock.kind = "absent"
       THEN StopReturn(p, 0, <<"lookup_error">>)
       ELSE Step(p, "p_lookup_unlink") /\ UNCHANGED log
    /\ UNCHANGED <<fsv, cmd, locv, recv, histv>>

\* except ProcessLookupError: LOCK_FILE.unlink(); return 0
stop_recording_lookup_unlink(p) ==
    /\ At(p, "p_lookup_unlink")
    /\ IF lock.kind = "absent"
       THEN /\ Crash(p)
            /\ UNCHANGED <<lock, log>>
       ELSE /\ lock' = Absent
            /\ StopReturn(p, 0, <<"lookup_error", "unlink">>)
    /\ UNCHANGED <<files, cmd, locv, recv, histv>>

\* ------------------------------------------------------------------------
\* handle_toggle
\* ------------------------------------------------------------------------

\* read_lock_file: if not LOCK_FILE.exists(): return None
\* handle_toggle: else: recorder.start_recording()
handle_toggle_exists(p) ==
    /\ At(p, "t_exists")
    /\ IF lock.kind = "absent"
       THEN Step(p, "s_exists") /\ Logged(p, <<"read_missing", "start_recording">>)
       ELSE Step(p, "t_read") /\ UNCHANGED log
    /\ UNCHANGED <<fsv, cmd, locv, recv, histv>>

\* variant: read_lock_file deletes a lock file it cannot parse
handle_toggle_read_deleting(p) ==
    /\ At(p, "t_read")
    /\ CASE lock.kind = "rec" ->
              /\ lk' = [lk EXCEPT ![p] = lock]
              /\ IF lock.pid = NoPid
                 THEN Step(p, "p_exists") /\ Logged(p, <<"stop_recording">>)
                 ELSE Step(p, "t_alive") /\ UNCHANGED log
              /\ UNCHANGED lock
         [] lock.kind = "nonrecord" ->
              /\ Crash(p)
              /\ UNCHANGED <<lk, log, lock>>
         [] lock.kind \in {"absent", "corrupt"} ->
              /\ Step(p, "s_exists")
              /\ Logged(p, <<IF lock.kind = "absent" THEN "read_missing"
                             ELSE "read_invalid", "start_recording">>)
              /\ lock' = Absent
              /\ UNCHANGED lk
    /\ UNCHANGED <<files, cmd, polls, recv, histv>>

\* read_lock_file: return json.load(f); a missing or unparseable file gives
\* None (the file is left in place).  handle_toggle: pid = lock_data.get('pid')
\* (lock_data.get raises AttributeError on a JSON value that is no object)
handle_toggle_read(p) ==
    /\ At(p, "t_read")
    /\ CASE lock.kind = "rec" ->
              /\ lk' = [lk EXCEPT ![p] = lock]
              /\ IF lock.pid = NoPid
                 THEN Step(p, "p_exists") /\ Logged(p, <<"stop_recording">>)
                 ELSE Step(p, "t_alive") /\ UNCHANGED log
         [] lock.kind = "nonrecord" ->
              /\ Crash(p)
              /\ UNCHANGED <<lk, log>>
         [] lock.kind \in {"absent", "corrupt"} ->
              /\ Step(p, "s_exists")
              /\ Logged(p, <<IF lock.kind = "absent" THEN "read_missing"
                             ELSE "read_invalid", "start_recording">>)
              /\ UNCHANGED lk
    /\ UNCHANGED <<fsv, cmd, polls, recv, histv>>

\* variant: the stale branch notifies and falls through to the stop branch
handle_toggle_alive_fallthrough(p) ==
    /\ At(p, "t_alive")
    /\ IF ~is_process_running(lk[p].pid)
       THEN Step(p, "p_exists")
            /\ Logged(p, <<"saw_stale", "notify_stale", "stop_recording">>)
       ELSE Step(p, "p_exists") /\ Logged(p, <<"stop_recording">>)
    /\ UNCHANGED <<fsv, cmd, locv, recv, histv>>

\* if pid and not is_process_running(pid): notification "Cleaning up stale
\* recording session..."; cleanup_stale_lock(); return 0
\* otherwise: stop_result = recorder.stop_recording()
handle_toggle_alive(p) ==
    /\ At(p, "t_alive")
    /\ IF ~is_process_running(lk[p].pid)
       THEN Step(p, "t_stale_cleanup") /\ Logged(p, <<"saw_stale", "notify_stale">>)
       ELSE Step(p, "p_exists") /\ Logged(p, <<"stop_recording">>)
    /\ UNCHANGED <<fsv, cmd, locv, recv, histv>>

\* what cleanup_stale_lock does to the lock file:
\* try: if LOCK_FILE.exists(): LOCK_FILE.unlink()   except Exception: warning
clear(l) == IF l.kind = "absent" THEN l ELSE Absent

\* variant: the unlink is not guarded, and fails on a missing lock file
cleanup_stale_lock_strict(p) ==
    /\ Quiet
    /\ pc[p] \in {"t_stale_cleanup", "t_noaudio_cleanup", "t_empty_cleanup",
                  "t_fail_cleanup", "t_final_cleanup"}
    /\ lock' = clear(lock)
    /\ Logged(p, IF lock.kind = "absent" THEN <<"cleanup_stale_lock">>
                 ELSE <<"cleanup_stale_lock", "unlink">>)
    /\ IF lock.kind = "absent"
       THEN Crash(p)
       ELSE CASE pc[p] = "t_stale_cleanup"   -> Return(p, 0)
              [] pc[p] = "t_noaudio_cleanup" -> Return(p, 1)
              [] pc[p] = "t_fail_cleanup"    -> Return(p, 1)
              [] pc[p] = "t_empty_cleanup"   -> Step(p, "t_empty_exists")
              [] pc[p] = "t_final_cleanup"   -> Step(p, "t_final_audio")
    /\ UNCHANGED <<files, cmd, locv, recv, histv>>

\* variant: the lock file is left in place
cleanup_stale_lock_noop(p) ==
    /\ Quiet
    /\ pc[p] \in {"t_stale_cleanup", "t_noaudio_cleanup", "t_empty_cleanup",
                  "t_fail_cleanup", "t_final_cleanup"}
    /\ lock' = lock
    /\ Logged(p, IF lock.kind = "absent" THEN <<"cleanup_stale_lock">>
                 ELSE <<"cleanup_stale_lock", "unlink">>)
    /\ CASE pc[p] = "t_stale_cleanup"   -> Return(p, 0)
         [] pc[p] = "t_noaudio_cleanup" -> Return(p, 1)
         [] pc[p] = "t_fail_cleanup"    -> Return(p, 1)
         [] pc[p] = "t_empty_cleanup"   -> Step(p, "t_empty_exists")
         [] pc[p] = "t_final_cleanup"   -> Step(p, "t_final_audio")
    /\ UNCHANGED <<files, cmd, locv, recv, histv>>

\* variant: after the stale cleanup the toggle goes on to start a recording
cleanup_stale_lock_then_start(p) ==
    /\ Quiet
    /\ pc[p] \in {"t_stale_cleanup", "t_noaudio_cleanup", "t_empty_cleanup",
                  "t_fail_cleanup", "t_final_cleanup"}
    /\ lock' = Absent
    /\ Logged(p, (IF lock.kind = "absent" THEN <<"cleanup_stale_lock">>
                  ELSE <<"cleanup_stale_lock", "unlink">>)
                 \o (IF pc[p] = "t_stale_cleanup" THEN <<"start_recording">> ELSE <<>>))
    /\ CASE pc[p] = "t_stale_cleanup"   -> Step(p, "s_exists")
         [] pc[p] = "t_noaudio_cleanup" -> Return(p, 1)
         [] pc[p] = "t_fail_cleanup"    -> Return(p, 1)
         [] pc[p] = "t_empty_cleanup"   -> Step(p, "t_empty_exists")
         [] pc[p] = "t_final_cleanup"   -> Step(p, "t_final_audio")
    /\ UNCHANGED <<files, cmd, locv, recv, histv>>

\* cleanup_stale_lock as called from handle_toggle: the lock file is removed
\* if it exists, and no exception leaves the function.  What follows depends
\* on the call site.
cleanup_stale_lock(p) ==
    /\ Quiet
    /\ pc[p] \in {"t_stale_cleanup", "t_noaudio_cleanup", "t_empty_cleanup",
                  "t_fail_cleanup", "t_final_cleanup"}
    /\ lock' = clear(lock)
    /\ Logged(p, IF lock.kind = "absent" THEN <<"cleanup_stale_lock">>
                 ELSE <<"cleanup_stale_lock", "unlink">>)
    /\ CASE pc[p] = "t_stale_cleanup"   -> Return(p, 0)
         [] pc[p] = "t_noaudio_cleanup" -> Return(p, 1)
         [] pc[p] = "t_fail_cleanup"    -> Return(p, 1)
         [] pc[p] = "t_empty_cleanup"   -> Step(p, "t_empty_exists")
         [] pc[p] = "t_final_cleanup"   -> Step(p, "t_final_audio")
    /\ UNCHANGED <<files, cmd, locv, recv, histv>>

\* variant: the transcription is attempted whether the file is there or not
handle_toggle_audio_unchecked(p) ==
    /\ At(p, "t_audio")
    /\ IF files[lk[p].audio].state = "absent"
       THEN Step(p, "t_transcribe") /\ Logged(p, <<"notify_audio_missing">>)
       ELSE Step(p, "t_transcribe") /\ Logged(p, <<"audio_found", "notify_transcribing">>)
    /\ UNCHANGED <<fsv, cmd, locv, recv, histv>>

\* time.sleep(0.2); if not audio_file or not Path(audio_file).exists(): ...
handle_toggle_audio(p) ==
    /\ At(p, "t_audio")
    /\ IF files[lk[p].audio].state = "absent"
       THEN Step(p, "t_noaudio_cleanup") /\ Logged(p, <<"notify_audio_missing">>)
       ELSE Step(p, "t_transcribe") /\ Logged(p, <<"audio_found", "notify_transcribing">>)
    /\ UNCHANGED <<fsv, cmd, locv, recv, histv>>

\* variant: a failed injection is not notified by the injection step
deliver_unannounced(pasted, copied, shown) ==
    CASE pasted -> <<"paste_ok", "notify_done">>
      [] ~pasted /\ copied ->
           <<"paste_failed", "clipboard_ok", "notify_clipboard">>
      [] ~pasted /\ ~copied ->
           <<"paste_failed", "clipboard_failed", "notify_preview",
             IF shown THEN "preview_shown" ELSE "preview_suppressed">>

\* if paste_text_xdotool(text): notification "Done! Pasted ..."
\* else: if copy_to_clipboard(text): notification "Text copied to clipboard"
\*       else: notification with preview = text[:100]
\* paste_text_xdotool sends its own error notification when it fails.  A
\* notify_* entry is a call of the notifier; the user sees it only if
\* CONFIG['enable_notifications'] is set and the notification tool exists
\* (shown), which the log records for the preview.
deliver(pasted, copied, shown) ==
    CASE pasted -> <<"paste_ok", "notify_done">>
      [] ~pasted /\ copied ->
           <<"paste_failed", "notify_paste_error", "clipboard_ok", "notify_clipboard">>
      [] ~pasted /\ ~copied ->
           <<"paste_failed", "notify_paste_error", "clipboard_failed", "notify_preview",
             IF shown THEN "preview_shown" ELSE "preview_suppressed">>

\* variant: an exception of transcribe_audio is not caught
handle_toggle_transcribe_uncaught(p) ==
    /\ At(p, "t_transcribe")
    /\ \E outcome \in {"error", "blank", "text"}, pasted \in BOOLEAN,
          clipboard \in {"ok", "failed", "raised"}, shown \in BOOLEAN :
         /\ files[lk[p].audio].state = "absent" => outcome = "error"
         /\ CASE outcome = "error" ->
                   /\ Crash(p)
                   /\ Logged(p, <<"transcribe", "error">>)
              [] outcome = "blank" ->
                   /\ Step(p, "t_empty_cleanup")
                   /\ Logged(p, <<"transcribe", "blank", "notify_no_speech">>)
              [] outcome = "text" /\ ~pasted /\ clipboard = "raised" ->
                   /\ Step(p, "t_fail_cleanup")
                   /\ Logged(p, <<"transcribe", "text", "notify_pasting", "paste_failed",
                                  "notify_paste_error", "clipboard_raised",
                                  "notify_transcription_failed">>)
              [] outcome = "text" /\ (pasted \/ clipboard # "raised") ->
                   /\ Step(p, "t_final_cleanup")
                   /\ Logged(p, <<"transcribe", "text", "notify_pasting">>
                                \o deliver(pasted, clipboard = "ok", shown))
    /\ UNCHANGED <<fsv, cmd, locv, recv, histv>>

\* text = transcribe_audio(audio_file): raises (file not found, engine not
\* installed, engine failure) or returns the processed text
\* if not text or not text.strip(): notification "No speech detected"
\* otherwise notification "Pasting ..." and the delivery of the text
\* copy_to_clipboard lets an exception of its second tool (xsel timing out)
\* escape; like one of transcribe_audio it ends in `except Exception`.
handle_toggle_transcribe(p) ==
    /\ At(p, "t_transcribe")
    /\ \E outcome \in {"error", "blank", "text"}, pasted \in BOOLEAN,
          clipboard \in {"ok", "failed", "raised"}, shown \in BOOLEAN :
         /\ files[lk[p].audio].state = "absent" => outcome = "error"
         /\ CASE outcome = "error" ->
                   /\ Step(p, "t_fail_cleanup")
                   /\ Logged(p, <<"transcribe", "error", "notify_transcription_failed">>)
              [] outcome = "blank" ->
                   /\ Step(p, "t_empty_cleanup")
                   /\ Logged(p, <<"transcribe", "blank", "notify_no_speech">>)
              [] outcome = "text" /\ ~pasted /\ clipboard = "raised" ->
                   /\ Step(p, "t_fail_cleanup")
                   /\ Logged(p, <<"transcribe", "text", "notify_pasting", "paste_failed",
                                  "notify_paste_error", "clipboard_raised",
                                  "notify_transcription_failed">>)
              [] outcome = "text" /\ (pasted \/ clipboard # "raised") ->
                   /\ Step(p, "t_final_cleanup")
                   /\ Logged(p, <<"transcribe", "text", "notify_pasting">>
                                \o deliver(pasted, clipboard = "ok", shown))
    /\ UNCHANGED <<fsv, cmd, locv, recv, histv>>

\* (no speech) if not CONFIG.get('keep_temp') and Path(audio_file).exists():
handle_toggle_empty_exists(p) ==
    /\ At(p, "t_empty_exists")
    /\ \E keep_temp \in BOOLEAN :
         IF keep_temp
         THEN Return(p, 0) /\ Logged(p, <<"keep_temp">>)
         ELSE IF files[lk[p].audio].state = "absent"
              THEN Return(p, 0) /\ UNCHANGED log
              ELSE Step(p, "t_empty_unlink") /\ UNCHANGED log
    /\ UNCHANGED <<fsv, cmd, locv, recv, histv>>

\* (no speech) Path(audio_file).unlink(); return 0
\* (a FileNotFoundError is caught by the except clause of the transcription)
handle_toggle_empty_unlink(p) ==
    /\ At(p, "t_empty_unlink")
    /\ IF files[lk[p].audio].state = "absent"
       THEN /\ Step(p, "t_fail_cleanup")
            /\ Logged(p, <<"notify_transcription_failed">>)
            /\ UNCHANGED files
       ELSE /\ files' = [files EXCEPT ![lk[p].audio] = NoFile]
            /\ Logged(p, <<"unlink_audio">>)
            /\ Return(p, 0)
    /\ UNCHANGED <<lock, cmd, locv, recv, histv>>

\* if not CONFIG.get('keep_temp') and Path(audio_file).exists():
\*     try: Path(audio_file).unlink() except Exception: warning
\* return 0
handle_toggle_final_audio(p) ==
    /\ At(p, "t_final_audio")
    /\ \E keep_temp \in BOOLEAN :
         IF keep_temp
         THEN Logged(p, <<"keep_temp">>) /\ UNCHANGED files
         ELSE IF files[lk[p].audio].state = "absent"
              THEN UNCHANGED <<files, log>>
              ELSE /\ files' = [files EXCEPT ![lk[p].audio] = NoFile]
                   /\ Logged(p, <<"unlink_audio">>)
    /\ Return(p, 0)
    /\ UNCHANGED <<lock, cmd, locv, recv, histv>>

\* ------------------------------------------------------------------------
Next ==
    \/ \E p \in Procs, args \in SUBSET Modes : main(p, args)
    \/ \E p \in Procs : reap(p)
    \/ \E p \in Procs : start_recording_exists(p)
    \/ \E p \in Procs : start_recording_read(p)
    \/ \E p \in Procs : start_recording_alive(p)
    \/ \E p \in Procs : start_recording_unlink_stale(p)
    \/ \E p \in Procs : start_recording_unlink_invalid(p)
    \/ \E p \in Procs : start_recording_preflight(p)
    \/ \E p \in Procs : start_recording_write(p)
    \/ \E p \in Procs : start_recording_signal(p)
    \/ \E p \in Procs : start_recording_open(p)
    \/ \E p \in Procs : start_recording_fail_exists(p)
    \/ \E p \in Procs : start_recording_fail_unlink(p)
    \/ \E p \in Procs : audio_callback(p)
    \/ \E p \in Procs : signal_handler_begin(p)
    \/ \E p \in Procs : save_audio_data_open(p)
    \/ \E p \in Procs : save_audio_data_write(p)
    \/ \E p \in Procs : signal_handler_exists(p)
    \/ \E p \in Procs : signal_handler_unlink(p)
    \/ \E p \in Procs : stop_recording_exists(p)
    \/ \E p \in Procs : stop_recording_read(p)
    \/ \E p \in Procs : stop_recording_invalid_exists(p)
    \/ \E p \in Procs : stop_recording_invalid_unlink(p)
    \/ \E p \in Procs : stop_recording_nopid_unlink(p)
    \/ \E p \in Procs : stop_recording_alive(p)
    \/ \E p \in Procs : stop_recording_stale_unlink(p)
    \/ \E p \in Procs : stop_recording_term(p)
    \/ \E p \in Procs : stop_recording_poll(p)
    \/ \E p \in Procs : stop_recording_kill(p)
    \/ \E p \in Procs : stop_recording_kill_exists(p)
    \/ \E p \in Procs : stop_recording_kill_unlink(p)
    \/ \E p \in Procs : stop_recording_lookup_exists(p)
    \/ \E p \in Procs : stop_recording_lookup_unlink(p)
    \/ \E p \in Procs : handle_toggle_exists(p)
    \/ \E p \in Procs : handle_toggle_read(p)
    \/ \E p \in Procs : handle_toggle_alive(p)
    \/ \E p \in Procs : cleanup_stale_lock(p)
    \/ \E p \in Procs : handle_toggle_audio(p)
    \/ \E p \in Procs : handle_toggle_transcribe(p)
    \/ \E p \in Procs : handle_toggle_empty_exists(p)
    \/ \E p \in Procs : handle_toggle_empty_unlink(p)
    \/ \E p \in Procs : handle_toggle_final_audio(p)

Spec == Init /\ [][Next]_vars

\* ------------------------------------------------------------------------
\* _send_notification_static and DictationRecorder._send_notification (the
\* two have the same body).  In Spec a notify_* entry of the log is one call
\* of this function; NotifierSpec runs the function by itself, step by step,
\* for every configuration and every outcome of the notification tool.
\* pc[p] is the position inside the call, cmd[p] the command that calls,
\* log[p] the urgency passed and what happened.
\* ------------------------------------------------------------------------
Urgencies == {"low", "normal", "critical"}
\* what subprocess.run([tool, "-u", urgency, title, message], check=False,
\* capture_output=True) can do: run the tool (whatever its exit status, which
\* check=False ignores), or raise because the tool does not exist, cannot be
\* executed, or for another reason
RunOutcomes == {"sent", "nonzero_exit", "FileNotFoundError", "PermissionError",
                "OtherException"}
CallEnded == {"n_returned", "crashed"}

\* a caller reaches one of its notification calls
send_notification_call(p, c, urgency) ==
    /\ pc[p] = "idle"
    /\ \A q \in Procs : q < p => pc[q] \in CallEnded
    /\ cmd' = [cmd EXCEPT ![p] = c]
    /\ Step(p, "n_enabled")
    /\ Logged(p, <<"call", urgency>>)
    /\ UNCHANGED <<fsv, locv, recv, histv>>

\* if not CONFIG.get('enable_notifications', True): return
send_notification_enabled(p) ==
    /\ pc[p] = "n_enabled"
    /\ \E enable_notifications \in BOOLEAN :
         IF enable_notifications
         THEN Step(p, "n_run") /\ UNCHANGED log
         ELSE Step(p, "n_returned") /\ Logged(p, <<"disabled">>)
    /\ UNCHANGED <<fsv, cmd, locv, recv, histv>>

\* try: subprocess.run([tool, "-u", urgency_arg, title, message], check=False,
\*                     capture_output=True)
send_notification_run(p) ==
    /\ pc[p] = "n_run"
    /\ \E outcome \in RunOutcomes :
         /\ Logged(p, <<outcome>>)
         /\ Step(p, IF outcome \in {"sent", "nonzero_exit"} THEN "n_returned"
                    ELSE "n_except")
    /\ UNCHANGED <<fsv, cmd, locv, recv, histv>>

\* variant: only the missing tool is tolerated, other exceptions go on
send_notification_except_narrow(p) ==
    /\ pc[p] = "n_except"
    /\ IF HasIn(log[p], "FileNotFoundError")
       THEN Step(p, "n_returned") /\ Logged(p, <<"ignored">>)
       ELSE Crash(p) /\ UNCHANGED log
    /\ UNCHANGED <<fsv, cmd, locv, recv, histv>>

\* except FileNotFoundError: pass
\* except Exception as e: print(f"Notification error: {e}", file=sys.stderr)
send_notification_except(p) ==
    /\ pc[p] = "n_except"
    /\ IF HasIn(log[p], "FileNotFoundError")
       THEN Step(p, "n_returned") /\ Logged(p, <<"ignored">>)
       ELSE Step(p, "n_returned") /\ Logged(p, <<"printed">>)
    /\ UNCHANGED <<fsv, cmd, locv, recv, histv>>

NotifierNext ==
    \/ \E p \in Procs, c \in {"start", "stop", "toggle"}, urgency \in Urgencies :
          send_notification_call(p, c, urgency)
    \/ \E p \in Procs : send_notification_enabled(p)
    \/ \E p \in Procs : send_notification_run(p)
    \/ \E p \in Procs : send_notification_except(p)

NotifierSpec == Init /\ [][NotifierNext]_vars

\* ------------------------------------------------------------------------
\* Properties
\* ------------------------------------------------------------------------

\* process p takes a step of its own out of position l
Leaves(p, l) == pc[p] = l /\ (pc'[p] # l \/ polls'[p] # polls[p])
\* p's log gains the event e in this step
NewEvent(p, e) == ~HasIn(log[p], e) /\ HasIn(log'[p], e)
\* the call of stop_recording by p returns r in this step
StopResult(p, r) ==
    IF cmd[p] = "toggle" /\ r = 0
    THEN pc'[p] = "t_audio"
    ELSE pc'[p] = "done" /\ rc'[p] = r
\* no process is sent a signal in this step
NoSignal == pending' = pending /\ \A q \in Procs : pc'[q] = "killed" => pc[q] = "killed"
\* the toggle p found the pid of the lock file not running
ToggleFoundStale(p) == cmd[p] = "toggle" /\ Has(p, "notify_stale")
\* the recorder p has ended after handling exactly one termination signal
HandledOneSignal(p) == pc[p] = "done" /\ Count(p, "signal") = 1

\* C1 (mutual exclusion): when start_recording finds the lock file naming a
\* running process it returns 1 in that step; the lock file and the audio
\* files are unchanged, no stream is opened, and the invocation has written
\* no lock file and deleted none.
C1_MutualExclusion ==
    [][\A p \in Procs :
         (Leaves(p, "s_alive") /\ is_process_running(lk[p].pid)) =>
            /\ pc'[p] = "done"
            /\ rc'[p] = 1
            /\ lock' = lock
            /\ files' = files
            /\ stream'[p] = "none"
            /\ audio_data'[p] = <<>>
            /\ ~HasIn(log'[p], "write")
            /\ ~HasIn(log'[p], "unlink")
            /\ ~HasIn(log'[p], "open")]_vars

\* a start has returned 1 while another process holds the lock and records
C1_Witness ==
    \E p \in Procs :
        /\ pc[p] = "done"
        /\ cmd[p] = "start"
        /\ Has(p, "notify_already_recording")
        /\ rc[p] = 1
        /\ lock.kind = "rec"
        /\ lock.pid # p
        /\ is_process_running(lock.pid)
        /\ stream[lock.pid] = "active"

C4_ToggleStaleOnce ==
    \A p \in Procs :
        (ToggleFoundStale(p) /\ pc[p] = "done") =>
            /\ Count(p, "cleanup_stale_lock") = 1
            /\ ~Has(p, "sigterm")
            /\ ~Has(p, "sigkill")
            /\ ~Has(p, "stop_recording")
            /\ ~Has(p, "transcribe")
            /\ rc[p] = 0

\* a --toggle has returned 0 from its stale branch while no process records
C4_Witness ==
    \E p \in Procs :
        /\ pc[p] = "done"
        /\ ToggleFoundStale(p)
        /\ Count(p, "cleanup_stale_lock") = 1
        /\ rc[p] = 0
        /\ \A q \in Procs \ {p} : ~Running(q)

\* C5 (no data loss): a completely written audio file of a recorder holds the
\* concatenation, in arrival order, of every chunk the callback was given;
\* its sample count is the sum of the chunks' sample counts.
C5_NoDataLoss ==
    \A p \in Procs :
        (pc[p] # "gone" /\ files[p].state = "complete") =>
            /\ delivered[p] # <<>>
            /\ files[p].data = concatenate(delivered[p])
            /\ Len(files[p].data) = SampleCount(delivered[p])

\* a recorder has written the file after MaxChunks chunks had arrived
C5_Witness ==
    \E p \in Procs :
        /\ pc[p] # "gone"
        /\ files[p].state = "complete"
        /\ Len(delivered[p]) = MaxChunks
        /\ MaxChunks > 1

\* C6 as stated: a recorder that handled a termination signal and has exited
\* left no lock file of its own, and its exit status is 0 exactly if the
\* audio data was saved.
C6_AsStated ==
    \A p \in Procs :
        HandledOneSignal(p) =>
            /\ ~(lock.kind = "rec" /\ lock.pid = p)
            /\ rc[p] = 0 <=> Has(p, "notify_saved")

\* C7 (stop with a running owner): SIGTERM goes to the pid read from the lock
\* file; the wait loop polls at most StopPolls times; a poll that finds the
\* process gone ends stop_recording with 0 and without SIGKILL; SIGKILL is
\* sent only after SIGTERM, by a stop_recording whose StopPolls polls all
\* found the same pid running, and that stop_recording returns 1.
C7_StopLiveOwner ==
    [][\A p \in Procs :
         /\ polls'[p] <= StopPolls
         /\ (pc[p] \in {"p_term", "p_poll", "p_kill"} /\ pc'[p] # "gone")
               => lk'[p] = lk[p]
         /\ NewEvent(p, "sigterm") =>
               /\ pc[p] = "p_term"
               /\ is_process_running(lk[p].pid)
               /\ pending'[lk[p].pid] \/ pc'[lk[p].pid] = "killed"
         /\ (Leaves(p, "p_poll") /\ ~is_process_running(lk[p].pid)) =>
               /\ StopResult(p, 0)
               /\ ~HasIn(log'[p], "sigkill")
               /\ NoSignal
         /\ NewEvent(p, "sigkill") =>
               /\ pc[p] = "p_kill"
               /\ polls[p] = StopPolls
               /\ Has(p, "sigterm")
               /\ pc'[lk[p].pid] = "killed"
         /\ (HasIn(log'[p], "sigkill") /\ pc'[p] = "done") => rc'[p] = 1]_vars

\* a --stop has returned 1 after SIGTERM, StopPolls polls and SIGKILL
C7_Witness ==
    \E p \in Procs :
        /\ pc[p] = "done"
        /\ cmd[p] = "stop"
        /\ Has(p, "sigterm")
        /\ Has(p, "sigkill")
        /\ polls[p] = StopPolls
        /\ rc[p] = 1

\* C8 (stop without a lock file): stop_recording sends the notification "Not
\* currently recording" and returns 1; the step sends no signal and leaves
\* the lock file and the audio files as they are; under --stop that is all
\* the invocation does.
C8_StopNoMarker ==
    [][\A p \in Procs :
         (Leaves(p, "p_exists") /\ lock.kind = "absent") =>
            /\ pc'[p] = "done"
            /\ rc'[p] = 1
            /\ HasIn(log'[p], "notify_not_recording")
            /\ lock' = lock
            /\ files' = files
            /\ NoSignal
            /\ cmd[p] = "stop" =>
                  log'[p] = <<"one_mode", "no_lock", "notify_not_recording">>]_vars

\* a --stop has returned 1 on a system without lock file and without files
C8_Witness ==
    \E p \in Procs :
        /\ pc[p] = "done"
        /\ cmd[p] = "stop"
        /\ Has(p, "no_lock")
        /\ rc[p] = 1
        /\ lock.kind = "absent"
        /\ \A f \in Paths : files[f].state = "absent"

\* C9 (stop on a session that is already stopped, as the code has it): a
\* --stop that found no lock file, or a lock file whose pid is not running,
\* returns the error status 1; it has sent no signal and no lock file is left.
C9_StopAlreadyStopped ==
    \A p \in Procs :
        (pc[p] = "done" /\ cmd[p] = "stop" /\ (Has(p, "no_lock") \/ Has(p, "saw_stale"))) =>
            /\ rc[p] = 1
            /\ ~Has(p, "sigterm")
            /\ ~Has(p, "sigkill")
            /\ lock.kind = "absent"

\* a --stop has returned 1 after deleting the lock file of a dead recorder
C9_Witness ==
    \E p \in Procs :
        /\ pc[p] = "done"
        /\ cmd[p] = "stop"
        /\ Has(p, "saw_stale")
        /\ Has(p, "unlink")
        /\ rc[p] = 1

\* C9 as stated: a --stop on a session that is already stopped returns 0.
C9_AsStated ==
    \A p \in Procs :
        (pc[p] = "done" /\ cmd[p] = "stop" /\ (Has(p, "no_lock") \/ Has(p, "saw_stale"))) =>
            rc[p] = 0

\* C10 as stated: a --stop invoked right after a --stop has ended, no
\* other command running or invoked in between, finds no lock file (the
\* result of a stop on an idle system) and deletes nothing.
C10_AsStated ==
    \A p \in Procs :
        (pc[p] = "done" /\ cmd[p] = "stop" /\ succ[p]) =>
            /\ Has(p, "no_lock")
            /\ rc[p] = 1
            /\ ~Has(p, "unlink")

\* the toggle p is about to call transcribe_audio
AboutToTranscribe(p) == cmd[p] = "toggle" /\ pc[p] = "t_transcribe"
\* the stages of the toggle p on a live marker have run in their order: the
\* transcription after stop_recording returned 0 and the audio file was seen,
\* the delivery after the transcription returned a text; after a failed
\* stop_recording the toggle returned its status and did neither
StagesInOrder(p) ==
    /\ Before(p, "stop_ok", "transcribe")
    /\ Before(p, "audio_found", "transcribe")
    /\ Before(p, "stop_ok", "audio_found")
    /\ \A d \in {"paste_ok", "paste_failed", "clipboard_ok", "clipboard_failed",
                  "clipboard_raised", "notify_preview"} : Before(p, "text", d)
    /\ Has(p, "stop_failed") =>
          /\ ~Has(p, "transcribe") /\ ~Has(p, "audio_found") /\ ~Has(p, "paste_ok")
          /\ ~Has(p, "paste_failed")
          /\ pc[p] = "done" /\ rc[p] = 1

\* C11 (as stated): a toggle on a live marker transcribes only after
\* stop_recording returned success and the audio file was verified, delivers
\* only after the transcription returned, and returns the status of a failed
\* stop_recording without transcribing; when the transcription starts the
\* Recorder has terminated and its audio file is fully written.
C11_AsStated ==
    \A p \in Procs : cmd[p] = "toggle" =>
        /\ StagesInOrder(p)
        /\ AboutToTranscribe(p) =>
              /\ ~is_process_running(lk[p].pid)
              /\ files[lk[p].audio].state # "partial"

\* the order of the stages alone
C11_Order == \A p \in Procs : cmd[p] = "toggle" => StagesInOrder(p)

\* p is the only command there has been, or was invoked after a --stop had
\* ended with nothing else running, and no command was invoked since
Alone(p) == (\A q \in Procs \ {p} : pc[q] = "idle") \/ succ[p]
\* the recorder p is capturing and has not begun to flush
Recording(p) == pc[p] = "s_loop" /\ stream[p] = "active" /\ hstack[p] = <<>>

\* C12 (toggle on an idle system): a toggle that finds no lock file runs
\* start_recording and nothing of the stop branch, and ends with the status
\* start_recording ends with; while it records and has not begun to flush, no
\* file is at its audio path, and with no other command around the lock file
\* is its own marker.
C12_ToggleIdle ==
    \A p \in Procs : (cmd[p] = "toggle" /\ Has(p, "read_missing")) =>
        /\ Has(p, "start_recording")
        /\ \A e \in {"stop_recording", "sigterm", "transcribe", "cleanup_stale_lock",
                      "notify_stale"} : ~Has(p, e)
        /\ pc[p] = "done" => rc[p] \in {0, 1}
        /\ Recording(p) =>
              /\ files[p].state = "absent"
              /\ Alone(p) => lock = Marker(p, p)

\* a toggle that found no lock file is recording, alone, with a chunk captured
C12_Witness ==
    \E p \in Procs :
        /\ cmd[p] = "toggle"
        /\ Has(p, "read_missing")
        /\ Alone(p)
        /\ Recording(p)
        /\ audio_data[p] # <<>>
        /\ lock = Marker(p, p)

\* C13 (as stated): a toggle that stopped a live recorder whose audio file
\* has been created finds a non-empty audio file when the transcription
\* starts, and once it has returned without the retention option neither a
\* lock file nor the audio file is left.
C13_AsStated ==
    \A p \in Procs : (cmd[p] = "toggle" /\ Has(p, "audio_found")) =>
        /\ Has(p, "stop_ok")
        /\ AboutToTranscribe(p) => files[lk[p].audio].data # <<>>
        /\ (pc[p] = "done" /\ ~Has(p, "keep_temp")) =>
              /\ lock.kind = "absent"
              /\ files[lk[p].audio].state = "absent"

\* the same for a toggle that is alone with its recorder, when the flush has
\* completed and the transcription has returned
C13_FaultFree ==
    \A p \in Procs :
        (/\ cmd[p] = "toggle" /\ Has(p, "audio_found")
         /\ \A q \in Procs \ {p, lk[p].pid} : pc[q] = "idle") =>
            /\ Has(p, "stop_ok")
            /\ (AboutToTranscribe(p) /\ files[lk[p].audio].state = "complete") =>
                  files[lk[p].audio].data # <<>>
            /\ (pc[p] = "done" /\ ~Has(p, "keep_temp") /\ ~Has(p, "error")
                  /\ ~Has(p, "clipboard_raised")) =>
                  /\ lock.kind = "absent"
                  /\ files[lk[p].audio].state = "absent"
                  /\ rc[p] = 0

\* the outcomes of a call of copy_to_clipboard
ClipboardAttempt == {"clipboard_ok", "clipboard_failed", "clipboard_raised"}
\* every b in p's log has one of the events of as somewhere before it
AnyBefore(p, as, b) ==
    \A j \in 1..Len(log[p]) : log[p][j] = b =>
        \E i \in 1..(j - 1) : log[p][i] \in as
\* the event a of p's log is directly followed by one of the events of bs
NextIs(p, a, bs) ==
    \A i \in 1..Len(log[p]) : log[p][i] = a =>
        (i < Len(log[p]) /\ log[p][i + 1] \in bs)

\* C14 (amended): a failed injection is notified by the injection step
\* itself, and the clipboard is attempted right after that notification; the
\* notifications about the fallback ("copied to clipboard", the preview, the
\* failure of the whole step) come only after the clipboard attempt.
C14_DeliveryLadder ==
    \A p \in Procs : cmd[p] = "toggle" =>
        /\ NextIs(p, "paste_failed", {"notify_paste_error"})
        /\ NextIs(p, "notify_paste_error", ClipboardAttempt)
        /\ Before(p, "paste_failed", "notify_paste_error")
        /\ \A c \in ClipboardAttempt : Before(p, "notify_paste_error", c)
        /\ Before(p, "clipboard_ok", "notify_clipboard")
        /\ Before(p, "clipboard_failed", "notify_preview")
        /\ Has(p, "paste_ok") => \A c \in ClipboardAttempt : ~Has(p, c)

\* a toggle has returned after a failed injection and a clipboard attempt
C14_Witness ==
    \E p \in Procs :
        /\ cmd[p] = "toggle"
        /\ pc[p] = "done"
        /\ Has(p, "paste_failed")
        /\ Has(p, "notify_paste_error")
        /\ Has(p, "clipboard_failed")
        /\ Has(p, "notify_preview")

\* C14 (as stated): when the injection fails no failure notification is
\* sent before the clipboard has been attempted.
C14_AsStated ==
    \A p \in Procs : cmd[p] = "toggle" =>
        \A n \in {"notify_paste_error", "notify_preview", "notify_transcription_failed"} :
            Has(p, "paste_failed") => AnyBefore(p, ClipboardAttempt, n)

\* C15 (as stated): when a toggle whose transcription returned a text has
\* returned, the text was injected, or placed on the clipboard, or shown to
\* the user in the preview notification.
C15_AsStated ==
    \A p \in Procs : (cmd[p] = "toggle" /\ pc[p] = "done" /\ Has(p, "text")) =>
        \/ Has(p, "paste_ok")
        \/ Has(p, "clipboard_ok")
        \/ Has(p, "preview_shown")

\* the same with "the notifier was called with the preview" in place of
\* "shown", for the deliveries in which copy_to_clipboard returned
C15_NotifierCalled ==
    \A p \in Procs :
        (cmd[p] = "toggle" /\ pc[p] = "done" /\ Has(p, "text")
            /\ ~Has(p, "clipboard_raised")) =>
            \/ Has(p, "paste_ok")
            \/ Has(p, "clipboard_ok")
            \/ Has(p, "notify_preview")

\* C16 (as stated): a toggle whose transcription returned no speech injects
\* nothing and copies nothing, clears the lock file, deletes the audio file
\* unless it is retained, and returns 0.
C16_AsStated ==
    \A p \in Procs : (cmd[p] = "toggle" /\ pc[p] = "done" /\ Has(p, "blank")) =>
        /\ \A e \in {"paste_ok", "paste_failed"} \cup ClipboardAttempt : ~Has(p, e)
        /\ Before(p, "blank", "cleanup_stale_lock")
        /\ Has(p, "cleanup_stale_lock")
        /\ ~Has(p, "keep_temp") => files[lk[p].audio].state = "absent"
        /\ rc[p] = 0

\* the same for the runs in which the deletion of the audio file did not
\* raise
C16_DeletionDone ==
    \A p \in Procs :
        (cmd[p] = "toggle" /\ pc[p] = "done" /\ Has(p, "blank")
            /\ ~Has(p, "notify_transcription_failed")) =>
            /\ \A e \in {"paste_ok", "paste_failed"} \cup ClipboardAttempt : ~Has(p, e)
            /\ Before(p, "blank", "cleanup_stale_lock")
            /\ Has(p, "cleanup_stale_lock")
            /\ ~Has(p, "keep_temp") => files[lk[p].audio].state = "absent"
            /\ rc[p] = 0

\* C17 (as stated): a command that ran with nothing else running (so that
\* any lock file it met named no live owner) has ended with an exit status,
\* and has left no lock file that a following start would have to be
\* rescued from.
C17_AsStated ==
    \A p \in Procs :
        (pc[p] \in Ended /\ Alone(p) /\ cmd[p] \in {"start", "stop", "toggle"}) =>
        /\ pc[p] = "done"
        /\ rc[p] \in {0, 1}
        /\ lock.kind = "absent"

\* the same for every content but a JSON value that is no object
C17_Records ==
    \A p \in Procs :
        (/\ pc[p] \in Ended /\ Alone(p) /\ lock.kind # "nonrecord"
         /\ cmd[p] \in {"start", "stop", "toggle"}) =>
        /\ pc[p] = "done"
        /\ rc[p] \in {0, 1}
        /\ lock.kind = "absent"

\* C18 (amended): read_lock_file returns None for a missing and for an
\* unparseable lock file and leaves the file as it is; the toggle then runs
\* start_recording, and it is start_recording that deletes the unparseable
\* file, before it checks the device and writes its own marker.
C18_ReadLeavesFile ==
    [][\A p \in Procs :
         /\ (Leaves(p, "t_exists") /\ lock.kind = "absent") =>
               /\ lock' = lock
               /\ pc'[p] = "s_exists"
               /\ NewEvent(p, "read_missing")
         /\ (Leaves(p, "t_read") /\ lock.kind \in {"absent", "corrupt"}) =>
               /\ lock' = lock
               /\ pc'[p] = "s_exists"
               /\ NewEvent(p, IF lock.kind = "absent" THEN "read_missing"
                              ELSE "read_invalid")
               /\ ~HasIn(log'[p], "unlink")
         /\ (Leaves(p, "s_unlink_invalid") /\ lock.kind # "absent") =>
               /\ lock' = Absent
               /\ pc'[p] = "s_preflight"
               /\ NewEvent(p, "unlink")]_vars

\* a toggle has read the unparseable lock file, and the file is still there
C18_Witness ==
    \E p \in Procs :
        /\ cmd[p] = "toggle"
        /\ pc[p] = "s_exists"
        /\ Has(p, "read_invalid")
        /\ ~Has(p, "unlink")
        /\ lock = Corrupt

\* C18 (as stated): after read_lock_file has returned for an unparseable
\* lock file, the file is gone.
C18_AsStated ==
    [][\A p \in Procs :
         (Leaves(p, "t_read") /\ lock.kind = "corrupt") => lock'.kind = "absent"]_vars

\* C19 (as stated): while the lock file names a running recorder that is
\* capturing and has not begun to flush, no step deletes it.
C19_AsStated ==
    [][(lock.kind = "rec" /\ is_process_running(lock.pid) /\ Recording(lock.pid))
          => lock'.kind # "absent"]_vars

\* C20 (as stated): while the lock file exists, the file at the audio path
\* it names is absent or complete.
C20_AsStated ==
    (lock.kind = "rec" /\ lock.audio \in Paths) =>
        files[lock.audio].state \in {"absent", "complete"}

\* the signal handler of p is running
Flushing(p) == Running(p) /\ hstack[p] # <<>>

\* C21 (backend stopped before the flush): from the moment the signal
\* handler has stopped the stream until the recorder ends, the stream is not
\* active and no step changes the buffer or hands a chunk to the callback:
\* what _save_audio_data concatenates is what it writes.
C21_FlushExclusive ==
    [][\A p \in Procs : Flushing(p) =>
          /\ stream[p] # "active"
          /\ audio_data'[p] = audio_data[p]
          /\ delivered'[p] = delivered[p]]_vars

\* a recorder is between opening the audio file and writing the frames, with
\* a chunk in the buffer and the backend able to deliver one more
C21_Witness ==
    \E p \in Procs :
        /\ Flushing(p)
        /\ Top(p).pc = "h_write"
        /\ stream[p] = "stopped"
        /\ audio_data[p] # <<>>
        /\ Len(delivered[p]) < MaxChunks

\* a step of start_recording failed in the run of p
StartFailed(p) ==
    \E e \in {"notify_device_error", "notify_dir_error", "write_failed",
              "notify_audio_error", "notify_recording_error"} : Has(p, e)

\* C22 (as stated): a run of start_recording in which a step failed has
\* returned a non-zero status, and no lock file this run wrote is on disk.
C22_AsStated ==
    \A p \in Procs : (pc[p] \in {"done", "crashed"} /\ StartFailed(p)) =>
        /\ pc[p] = "done"
        /\ rc[p] # 0
        /\ lock.pid # p

\* the same for the runs that returned and in which the failing step was not
\* the write of the lock file
C22_OtherSteps ==
    \A p \in Procs :
        (pc[p] = "done" /\ StartFailed(p) /\ ~Has(p, "write_failed")) =>
            /\ rc[p] = 1
            /\ lock.pid # p

\* C23 (transcription failure): a toggle whose transcribe_audio raised goes
\* to the except clause and nowhere else: the failure notification is sent,
\* nothing is delivered, and the toggle has not ended by an exception; when
\* it has returned, the status is 1 and the lock file is gone.
C23_TranscriptionFailure ==
    \A p \in Procs : (cmd[p] = "toggle" /\ Has(p, "error")) =>
        /\ pc[p] \in {"t_fail_cleanup", "done"}
        /\ Has(p, "notify_transcription_failed")
        /\ Before(p, "error", "notify_transcription_failed")
        /\ \A e \in {"text", "blank", "paste_ok", "paste_failed"} \cup ClipboardAttempt :
              ~Has(p, e)
        /\ pc[p] = "done" =>
              /\ rc[p] = 1
              /\ Has(p, "cleanup_stale_lock")
              /\ lock.kind = "absent"

\* a toggle has returned after the engine failed on an audio file that exists
C23_Witness ==
    \E p \in Procs :
        /\ cmd[p] = "toggle"
        /\ pc[p] = "done"
        /\ Has(p, "error")
        /\ rc[p] = 1
        /\ files[lk[p].audio].state = "complete"
        /\ lock.kind = "absent"

\* the positions of handle_toggle at which it calls cleanup_stale_lock
CleanupCalls == {"t_stale_cleanup", "t_noaudio_cleanup", "t_empty_cleanup",
                 "t_fail_cleanup", "t_final_cleanup"}

\* C24 (clearing is idempotent): cleanup_stale_lock removes the lock file
\* whatever it holds, changes nothing when there is none, never ends the
\* caller by an exception, and clearing a cleared lock file changes nothing.
C24_ClearIdempotent ==
    [][/\ clear(lock).kind = "absent"
       /\ clear(clear(lock)) = clear(lock)
       /\ \A p \in Procs : (Leaves(p, pc[p]) /\ pc[p] \in CleanupCalls) =>
             /\ lock' = clear(lock)
             /\ lock'.kind = "absent"
             /\ lock.kind = "absent" => (lock' = lock /\ files' = files)
             /\ pc'[p] # "crashed"
             /\ clear(lock') = lock']_vars

\* a toggle has returned after calling cleanup_stale_lock twice (after "no
\* speech" and again in the except clause), the second time on no lock file
C24_Witness ==
    \E p \in Procs :
        /\ cmd[p] = "toggle"
        /\ pc[p] = "done"
        /\ Count(p, "cleanup_stale_lock") = 2
        /\ rc[p] = 1
        /\ lock.kind = "absent"

\* p is invoked in this step
Invoked(p) == pc[p] = "idle" /\ pc'[p] # "idle"

\* C25 (one mode per invocation): a command line with no mode option or
\* with more than one makes main return 1 at once: the lock file and the
\* audio files are untouched, no signal is sent, no process is ended or
\* started recording.  With exactly one mode option that mode is run.
C25_OneMode ==
    [][\A p \in Procs : Invoked(p) =>
          /\ (HasIn(log'[p], "no_mode") \/ HasIn(log'[p], "several_modes")) =>
                /\ pc'[p] = "done"
                /\ rc'[p] = 1
                /\ cmd'[p] = "invalid"
                /\ lock' = lock
                /\ files' = files
                /\ pending' = pending
                /\ stream' = stream
                /\ handlers' = handlers
                /\ \A q \in Procs \ {p} : pc'[q] = pc[q]
          /\ HasIn(log'[p], "one_mode") => cmd'[p] \in Modes]_vars

\* a command line with several modes has been rejected while a recorder
\* holds the lock file and records
C25_Witness ==
    \E p \in Procs :
        /\ pc[p] = "done"
        /\ Has(p, "several_modes")
        /\ rc[p] = 1
        /\ lock.kind = "rec"
        /\ is_process_running(lock.pid)
        /\ Recording(lock.pid)

\* C26 (a notifier failure never propagates), of NotifierSpec: every call
\* of the notifier ends by returning, never by an exception, whatever the
\* configuration and whatever the notification tool does; the call returns
\* no value and changes nothing but the notification itself, so the caller
\* goes on exactly as after a notification that was sent.
C26_NotifierReturns ==
    [][\A p \in Procs :
         /\ pc'[p] # "crashed"
         /\ (pc[p] \in {"n_enabled", "n_run", "n_except"} /\ pc'[p] # pc[p]) =>
               /\ pc'[p] \in {"n_run", "n_except", "n_returned"}
               /\ rc'[p] = rc[p]
               /\ cmd'[p] = cmd[p]
               /\ lock' = lock
               /\ files' = files
               /\ recv' = recv
         /\ pc[p] = "n_except" => (pc'[p] = "n_returned" \/ pc'[p] = pc[p])]_vars

\* a call in which the tool could not be executed has returned, after one in
\* which the tool was missing
C26_Witness ==
    \E p, q \in Procs :
        /\ pc[p] = "n_returned"
        /\ Has(p, "PermissionError")
        /\ Has(p, "printed")
        /\ pc[q] = "n_returned"
        /\ Has(q, "FileNotFoundError")
        /\ Has(q, "ignored")

\* C27 as the specification states it (the marker file is a mutual-exclusion
\* token): at most one process has an open capturing stream at any time, and
\* the marker on disk names that process.
Capturing == {p \in Procs : stream[p] = "active"}

C27_AsStated ==
    /\ Cardinality(Capturing) <= 1
    /\ \A p \in Capturing : lock.kind = "rec" /\ lock.pid = p

\* C28 as the specification states it (every invocation ends by returning an
\* exit code): no start, stop or toggle invocation ends by an uncaught
\* exception, whatever the other processes do to the marker in between.
C28_AsStated ==
    \A p \in Procs : cmd[p] \in {"start", "stop", "toggle"} => pc[p] # "crashed"

\* the case C28 singles out: an invocation that found the marker stale or
\* unreadable, and goes on to delete it, does not end by an uncaught exception
\* when another process deletes the marker first
C28_DeletedInBetween ==
    \A p \in Procs :
        (cmd[p] \in {"start", "stop", "toggle"} /\ pc[p] = "crashed") =>
            ~(Has(p, "saw_stale") \/ Has(p, "read_invalid"))

\* a toggle that read a marker naming a live Recorder, went on to its stop
\* step, and found no marker there: the Recorder was terminated in between
StopCameLate(p) ==
    /\ cmd[p] = "toggle"
    /\ lk[p].kind = "rec"
    /\ Has(p, "stop_recording")
    /\ Has(p, "no_lock")

\* C29 as the specification states it (no orphaned state after a concurrent
\* stop): when such a toggle has returned and no other process runs, the
\* marker is absent and the session's audio file has been transcribed by the
\* toggle or is not on disk.  (Checked for the sessions whose audio was
\* saved without a write failure.)
C29_AsStated ==
    \A p \in Procs :
        (/\ StopCameLate(p)
         /\ pc[p] = "done"
         /\ \A q \in Procs \ {p} : ~Running(q)
         /\ files[lk[p].audio].state # "partial") =>
            /\ lock.kind = "absent"
            /\ Has(p, "transcribe") \/ files[lk[p].audio].state = "absent"

\* C30 as the specification states it (one flush per Recorder run): however
\* many termination requests a Recorder receives, and whenever they arrive,
\* it writes its buffer to the audio path at most once.
C30_AsStated ==
    \A p \in Procs : cmd[p] \in {"start", "toggle"} => Count(p, "notify_saved") <= 1

\* the Recorder p has just been ended by the graceful request of q
EndedByRequest(p, q) ==
    /\ pc[p] = "killed"
    /\ Has(p, "write")
    /\ pc[q] = "p_poll"
    /\ lk[q].pid = p
    /\ log[q] # <<>>
    /\ log[q][Len(log[q])] = "sigterm"

\* C31 as the specification states it (a graceful request ends the Recorder
\* with the marker absent): a Recorder that had written its marker and has
\* exited because of a graceful termination request has left no marker that
\* names it, wherever in its run the request arrived.
C31_AsStated ==
    \A p, q \in Procs :
        EndedByRequest(p, q) => ~(lock.kind = "rec" /\ lock.pid = p)

AfterRequest == <<"p_term", "p_poll", "p_kill", "p_kill_exists", "p_kill_unlink",
                  "p_lookup_exists", "p_lookup_unlink">>
Waiting(p) == \E i \in 1..Len(AfterRequest) : pc[p] = AfterRequest[i]
StopRank(l) ==
    IF \E i \in 1..Len(AfterRequest) : l = AfterRequest[i]
    THEN CHOOSE i \in 1..Len(AfterRequest) : l = AfterRequest[i]
    ELSE Len(AfterRequest) + 1

\* one step of stop_recording from the graceful request on
StopStep(p) ==
    \/ stop_recording_term(p)
    \/ stop_recording_poll(p)
    \/ stop_recording_kill(p)
    \/ stop_recording_kill_exists(p)
    \/ stop_recording_kill_unlink(p)
    \/ stop_recording_lookup_exists(p)
    \/ stop_recording_lookup_unlink(p)

\* the waiting of stop_recording is bounded: at most StopPolls polls, at most
\* one SIGKILL, every step moves on to a later position, and the invocation
\* never has to wait for another process before its next step
C33_BoundedWait ==
    [][\A p \in Procs :
         /\ polls'[p] <= StopPolls
         /\ Cardinality({i \in 1..Len(log'[p]) : log'[p][i] = "sigkill"}) <= 1
         /\ (Waiting(p) /\ pc'[p] # pc[p]) => StopRank(pc'[p]) > StopRank(pc[p])
         /\ (Waiting(p) /\ Quiet) => ENABLED StopStep(p)]_vars

\* C33 as the specification states it (every stop invocation terminates by
\* returning): after the graceful request a stop makes at most StopPolls
\* polls and sends at most one SIGKILL, each of its steps moves on, and the
\* invocation ends by returning a status.
C33_AsStated ==
    [][\A p \in Procs :
         /\ polls'[p] <= StopPolls
         /\ Cardinality({i \in 1..Len(log'[p]) : log'[p][i] = "sigkill"}) <= 1
         /\ (Waiting(p) /\ pc'[p] # pc[p]) =>
               /\ StopRank(pc'[p]) > StopRank(pc[p])
               /\ pc'[p] # "crashed"]_vars

\* C34 as the specification states it (termination request with an empty
\* buffer): a Recorder whose signal handler found the buffer empty, and that
\* is not killed meanwhile, ends by exiting with a non-zero status and not by
\* an uncaught exception; it has written no audio file, and when it has
\* ended the marker file is absent.
C34_AsStated ==
    \A p \in Procs :
        (pc[p] \in {"done", "crashed"} /\ Has(p, "warn_no_audio")) =>
            /\ pc[p] = "done"
            /\ rc[p] # 0
            /\ files[p].state = "absent"
            /\ ~Has(p, "notify_saved")
            /\ lock.kind = "absent"

\* the same, for the Recorders whose own deletion of the marker was not
\* overtaken by another process
C34_Undisturbed ==
    \A p \in Procs :
        (/\ pc[p] \in {"done", "crashed"}
         /\ Has(p, "warn_no_audio")
         /\ ~Has(p, "notify_recording_error")) =>
            /\ pc[p] = "done"
            /\ rc[p] = 1
            /\ files[p].state = "absent"
            /\ ~Has(p, "notify_saved")
            /\ lock.kind = "absent"

\* C35 (the marker is written after the preflight and before the capture):
\* whenever a start run puts content into the marker file, its device check
\* and its directory check have succeeded and its stream is not open yet; a
\* run in which a check failed ends there with status 1, having written no
\* marker; a stream is opened, and a chunk captured, only by a run that has
\* written its marker.
C35_MarkerOrder ==
    [][/\ (lock' # lock /\ lock'.kind # "absent") =>
            \E p \in Procs :
                /\ lock'.pid = p
                /\ pc[p] = "s_write"
                /\ Has(p, "device_ok")
                /\ Has(p, "dir_ok")
                /\ stream[p] = "none"
                /\ delivered[p] = <<>>
       /\ \A p \in Procs :
            /\ (pc[p] = "s_preflight" /\ pc'[p] # pc[p] /\ ~HasIn(log'[p], "dir_ok")) =>
                  /\ pc'[p] = "done"
                  /\ rc'[p] = 1
                  /\ lock' = lock
            /\ (stream'[p] = "active" /\ stream[p] # "active") => Has(p, "write")
            /\ delivered'[p] # delivered[p] =>
                  (delivered'[p] = <<>> \/ Has(p, "write"))]_vars

\* a Recorder named by the marker has captured a chunk
C35_Witness ==
    \E p \in Procs :
        /\ lock = Marker(p, p)
        /\ Has(p, "device_ok")
        /\ Has(p, "dir_ok")
        /\ Has(p, "write")
        /\ stream[p] = "active"
        /\ delivered[p] # <<>>

\* C36 (only start writes the marker's contents): whenever the marker file
\* gets new contents, it is the marker write of start_recording, run by a
\* --start or by a toggle that went on to start a recording, and the first
\* such write of that run; what is written is the record with the writing
\* process's own pid and the audio path made from that pid, or a cut-off part
\* of it when the write fails.  Every other step leaves the marker as it is
\* or deletes it.
C36_OnlyStartWrites ==
    [][(lock' # lock /\ lock'.kind # "absent") =>
          \E p \in Procs :
              /\ pc[p] = "s_write"
              /\ pc'[p] # "s_write"
              /\ cmd[p] \in {"start", "toggle"}
              /\ cmd[p] = "toggle" => Has(p, "start_recording")
              /\ ~Has(p, "write")
              /\ lock' \in {Marker(p, p), Truncated(p)}
              /\ lock'.kind = "rec" <=> HasIn(log'[p], "write")
              /\ \A q \in Procs \ {p} : pc'[q] = pc[q]]_vars

\* a stop has read the marker that a toggle wrote, and the marker on disk is
\* still that record
C36_Witness ==
    \E p, q \in Procs :
        /\ cmd[p] = "toggle"
        /\ Count(p, "write") = 1
        /\ lock = Marker(p, p)
        /\ cmd[q] = "stop"
        /\ lk[q] = Marker(p, p)
        /\ Has(q, "sigterm")

\* what the delivery of a transcription writes to the log
DeliveryTags == {"transcribe", "notify_transcribing", "notify_pasting", "paste_ok",
                 "paste_failed", "clipboard_ok", "clipboard_failed", "notify_done"}

\* C37 (audio file missing after a successful stop): a toggle whose stop step
\* returned 0 and that finds no file at the marker's audio path sends the
\* "Audio file not found" notification, clears the marker and returns 1; it
\* runs neither the transcription nor the delivery.
C37_MissingAudio ==
    [][\A p \in Procs :
         /\ (pc[p] = "t_audio" /\ pc'[p] # pc[p] /\ files[lk[p].audio].state = "absent") =>
               /\ Has(p, "stop_ok")
               /\ pc'[p] = "t_noaudio_cleanup"
               /\ HasIn(log'[p], "notify_audio_missing")
         /\ (pc[p] = "t_noaudio_cleanup" /\ pc'[p] # pc[p]) =>
               /\ pc'[p] = "done"
               /\ rc'[p] = 1
               /\ lock'.kind = "absent"
               /\ files' = files
         /\ HasIn(log'[p], "notify_audio_missing") =>
               /\ pc'[p] \in {"t_noaudio_cleanup", "done"}
               /\ \A i \in 1..Len(log'[p]) : log'[p][i] \notin DeliveryTags]_vars

\* a toggle stopped a Recorder that had captured nothing, found no audio
\* file, removed the marker that was still there and returned 1
C37_Witness ==
    \E p \in Procs :
        /\ cmd[p] = "toggle"
        /\ pc[p] = "done"
        /\ rc[p] = 1
        /\ Has(p, "stop_ok")
        /\ Has(p, "notify_audio_missing")
        /\ Has(p, "unlink")
        /\ lock.kind = "absent"

\* C38 as the specification states it (toggle's final cleanup is
\* unconditional): a toggle that has returned after a successful stop with
\* the audio file present has cleared the marker and, unless it kept the
\* file because retention is configured, the audio file is no longer on
\* disk, whichever way the transcription and the delivery went.
C38_AsStated ==
    \A p \in Procs :
        (/\ cmd[p] = "toggle"
         /\ pc[p] = "done"
         /\ Has(p, "stop_ok")
         /\ Has(p, "audio_found")) =>
            /\ Has(p, "cleanup_stale_lock")
            /\ Has(p, "keep_temp") \/ files[lk[p].audio].state = "absent"

\* the failure notifications start_recording sends
StartFailureNotifications ==
    {"notify_already_recording", "notify_device_error", "notify_dir_error",
     "notify_audio_error", "notify_recording_error"}

\* C39 as the specification states it (every failing path of start notifies
\* the user): a --start that has returned a non-zero status without having
\* been asked to terminate has sent a failure notification.
C39_AsStated ==
    \A p \in Procs :
        (cmd[p] = "start" /\ pc[p] = "done" /\ rc[p] # 0 /\ ~Has(p, "signal")) =>
            \E i \in 1..Len(log[p]) : log[p][i] \in StartFailureNotifications

\* the same for the failing paths other than the marker write: those do
\* notify
C39_OtherPaths ==
    \A p \in Procs :
        (/\ cmd[p] = "start"
         /\ pc[p] = "done"
         /\ rc[p] # 0
         /\ ~Has(p, "signal")
         /\ ~Has(p, "write_failed")) =>
            \E i \in 1..Len(log[p]) : log[p][i] \in StartFailureNotifications

\* C40 as the specification states it (a stop that has returned leaves no
\* marker behind): when a --stop has returned 0, the process named in the
\* marker it read is not running and that marker is no longer on disk; when
\* it has returned after sending SIGKILL, that marker is not on disk either.
C40_AsStated ==
    \A p \in Procs :
        (cmd[p] = "stop" /\ pc[p] = "done" /\ lk[p].kind = "rec"
         /\ (rc[p] = 0 \/ Has(p, "sigkill"))) =>
            /\ rc[p] = 0 => ~is_process_running(lk[p].pid)
            /\ lock # lk[p]

\* the forced-termination part alone holds
C40_AfterSigkill ==
    \A p \in Procs :
        (cmd[p] = "stop" /\ pc[p] = "done" /\ Has(p, "sigkill")) =>
            /\ rc[p] = 1
            /\ ~is_process_running(lk[p].pid)
            /\ lock # lk[p]

====
